---------------------------- MODULE Spec2Model ----------------------------
(***************************************************************************)
(* Model of main.py: probe the Docker daemon, list the running containers, *)
(* let the operator pick one and dump its databases into a file.           *)
(*                                                                         *)
(* Text is a sequence of one-character strings, so that the two regular    *)
(* expressions of the listing parser are computed character by character.  *)
(***************************************************************************)
EXTENDS Integers, Sequences, FiniteSets, TLC

(***************************************************************************)
(* Bounds of the model.                                                    *)
(***************************************************************************)
\* number of pieces a raw listing text is assembled from
MaxPieces == 4
\* number of lines read from the operator before only 0 or a valid number
\* is entered
MaxAttempts == 2

(***************************************************************************)
(* Text helpers.                                                           *)
(***************************************************************************)
None == <<>>
Some(x) == <<x>>

\* characters removed by str.strip() without arguments
Whitespace == {" ", "\t", "\n", "\r", "\f"}

RECURSIVE Concat(_)
Concat(ss) == IF ss = <<>> THEN <<>> ELSE Head(ss) \o Concat(Tail(ss))

\* text[i:j] of Python, with 1-based i and exclusive 1-based j
Slice(text, i, j) == SubSeq(text, i, j - 1)

(***************************************************************************)
(* DOCKER_CONTAINER_PATTERN: the alternatives of the pattern, in the order *)
(* the regular expression tries them.                                      *)
(***************************************************************************)
DOCKER_CONTAINER_PATTERN ==
    << <<"C","O","N","T","A","I","N","E","R"," ","I","D">>,
       <<"I","M","A","G","E">>,
       <<"C","O","M","M","A","N","D">>,
       <<"C","R","E","A","T","E","D">>,
       <<"S","T","A","T","U","S">>,
       <<"P","O","R","T","S">>,
       <<"N","A","M","E","S">> >>

\* the literal lit occurs in text at position i
MatchAt(lit, text, i) ==
    /\ i + Len(lit) - 1 <= Len(text)
    /\ SubSeq(text, i, i + Len(lit) - 1) = lit

\* the first alternative of pattern that matches at position i, 0 when none
FirstAlt(pattern, text, i) ==
    LET ks == {k \in 1..Len(pattern) : MatchAt(pattern[k], text, i)}
    IN  IF ks = {} THEN 0 ELSE CHOOSE k \in ks : \A j \in ks : k <= j

\* re.sub(pattern, "", text): leftmost non-overlapping matches are removed in
\* one left-to-right pass
RECURSIVE ReSubFrom(_, _, _)
ReSubFrom(pattern, text, i) ==
    IF i > Len(text) THEN <<>>
    ELSE LET k == FirstAlt(pattern, text, i)
         IN  IF k # 0
             THEN ReSubFrom(pattern, text, i + Len(pattern[k]))
             ELSE <<text[i]>> \o ReSubFrom(pattern, text, i + 1)

ReSub(pattern, text) == ReSubFrom(pattern, text, 1)

\* str.strip(): whitespace is removed from both ends of the whole text
Strip(text) ==
    LET keep == {i \in 1..Len(text) : text[i] \notin Whitespace}
    IN  IF keep = {} THEN <<>>
        ELSE LET lo == CHOOSE i \in keep : \A j \in keep : i <= j
                 hi == CHOOSE i \in keep : \A j \in keep : j <= i
             IN  SubSeq(text, lo, hi)

\* the same without .strip()
remove_docker_listing_headers_NoStrip(output) ==
    ReSub(DOCKER_CONTAINER_PATTERN, output)

remove_docker_listing_headers(output) ==
    Strip(ReSub(DOCKER_CONTAINER_PATTERN, output))

(***************************************************************************)
(* re.findall(r'[^ ]*$', text, re.MULTILINE).  Positions are 1-based and   *)
(* range over 1..Len(text)+1.                                              *)
(***************************************************************************)
\* $ with re.MULTILINE: at the end of the text and just before a newline
Dollar(text, p) == p = Len(text) + 1 \/ text[p] = "\n"

\* where [^ ]* stops when it starts at p: the next blank or the end of text;
\* every other character, a tab or a newline too, is consumed
RunEnd(text, p) ==
    LET blanks == {q \in p..Len(text) : text[q] = " "}
    IN  IF blanks = {} THEN Len(text) + 1
        ELSE CHOOSE q \in blanks : \A r \in blanks : q <= r

\* the end of the match that starts at p: the greedy run backtracks to the
\* last position where $ holds; 0 when there is none
MatchEnd(text, p) ==
    LET es == {e \in p..RunEnd(text, p) : Dollar(text, e)}
    IN  IF es = {} THEN 0 ELSE CHOOSE e \in es : \A f \in es : f <= e

\* the scan of findall: start is where the search resumes, must_advance says
\* that the previous match was empty so an empty match at start is refused
RECURSIVE FindallFrom(_, _, _)
FindallFrom(text, start, must_advance) ==
    LET cand == {p \in start..(Len(text) + 1) :
                    /\ MatchEnd(text, p) # 0
                    /\ ~(must_advance /\ p = start /\ MatchEnd(text, p) = p)}
    IN  IF cand = {} THEN <<>>
        ELSE LET p == CHOOSE q \in cand : \A r \in cand : q <= r
                 e == MatchEnd(text, p)
             IN  <<Slice(text, p, e)>> \o FindallFrom(text, e, e = p)

Findall(text) == FindallFrom(text, 1, FALSE)

get_container_names(docker_ps_output) ==
    SelectSeq(Findall(docker_ps_output), LAMBDA name : name # <<>>)

(***************************************************************************)
(* int(text): surrounding whitespace is ignored, one sign is allowed, the  *)
(* digits may be grouped by single underscores.  Anything else raises      *)
(* ValueError.                                                             *)
(***************************************************************************)
Digits == <<"0", "1", "2", "3", "4", "5", "6", "7", "8", "9">>

IsDigit(c) == \E i \in 1..Len(Digits) : Digits[i] = c

DigitVal(c) == (CHOOSE i \in 1..Len(Digits) : Digits[i] = c) - 1

RECURSIVE DecimalValue(_, _)
DecimalValue(body, acc) ==
    IF body = <<>> THEN acc
    ELSE IF Head(body) = "_" THEN DecimalValue(Tail(body), acc)
    ELSE DecimalValue(Tail(body), 10 * acc + DigitVal(Head(body)))

WellFormedDigits(body) ==
    /\ body # <<>>
    /\ \A i \in 1..Len(body) :
          \/ IsDigit(body[i])
          \/ /\ body[i] = "_"
             /\ 1 < i /\ i < Len(body)
             /\ IsDigit(body[i - 1]) /\ IsDigit(body[i + 1])

\* [ok |-> FALSE] stands for ValueError
IntOf(text) ==
    LET t      == Strip(text)
        signed == t # <<>> /\ Head(t) \in {"+", "-"}
        body   == IF signed THEN Tail(t) ELSE t
    IN  IF WellFormedDigits(body)
        THEN [ok  |-> TRUE,
              val |-> IF signed /\ Head(t) = "-"
                      THEN 0 - DecimalValue(body, 0)
                      ELSE DecimalValue(body, 0)]
        ELSE [ok |-> FALSE, val |-> 0]

(***************************************************************************)
(* Inputs of the model.                                                    *)
(***************************************************************************)
\* the pieces the standard output of `docker ps` is assembled from: name
\* characters, blanks, tabs, line breaks and column headers
Pieces ==
    { <<"a">>, <<"b">>, <<" ">>, <<"\t">>, <<"\n">>,
      <<"C","O","N","T","A","I","N","E","R"," ","I","D">>,
      <<"I","M","A","G","E">>,
      <<"N","A","M","E","S">> }

Texts ==
    { Concat(ps) : ps \in UNION { [1..n -> Pieces] : n \in 0..MaxPieces } }

\* the lines the operator may type at the prompt
Entries ==
    { <<"0">>, <<"1">>, <<"2">>, <<"3">>, <<"-", "1">>, <<"+", "1">>,
      <<" ", "2">>, <<"0", "0">>, <<"x">>, <<>>, <<"1", ".", "5">> }

\* how an external command ends: exit code 0, another exit code, or the
\* executable is not on PATH (FileNotFoundError)
Outcomes == {"ok", "nonzero", "notfound"}

(***************************************************************************)
(* What the program prints.                                                *)
(***************************************************************************)
Msg(kind, text) == [kind |-> kind, text |-> text, arg |-> <<>>, items |-> <<>>]

Plain(text) == Msg("plain", text)

\* display_error: "Error:" in red, then the message
display_error(message) == Msg("error", message)

\* display_success: "Success:" in green, then the message
display_success(message) == Msg("success", message)

\* display_containers followed by the prompt of input()
display_containers(cs) ==
    << [kind |-> "plain", text |-> "Select a Docker container:",
        arg |-> <<>>, items |-> cs],
       Plain("Enter the number of the container you want to select (0 to cancel): ") >>

Invocation(argv, result) == [argv |-> argv, result |-> result]

VARIABLES
    pc,                 \* where main stands
    docker_state,       \* main: the DockerState returned by the probe
    commands,           \* the external commands started so far, in order
    output,             \* get_docker_containers: decoded stdout of docker ps
    clean_output,       \* get_docker_containers: output without the headers
    container_names,    \* get_docker_containers: the value it returns
    containers,         \* main: the list shown to the operator
    entry,              \* the last line read by input()
    selection,          \* select_container: int(entry) - 1
    selected_container, \* main: the name returned by select_container
    attempts,           \* number of lines read by input()
    stdout,             \* the messages printed so far
    dump_file,          \* the file take_backup opens: absent, open or closed
    exit_code           \* the exit code of the process once it has ended

vars == << pc, docker_state, commands, output, clean_output, container_names,
           containers, entry, selection, selected_container, attempts,
           stdout, dump_file, exit_code >>

listing == << output, clean_output, container_names >>

prompt == << entry, selection, attempts >>

Init ==
    /\ pc = "start"
    /\ docker_state = "unset"
    /\ commands = <<>>
    /\ output = <<>>
    /\ clean_output = <<>>
    /\ container_names = <<>>
    /\ containers = <<>>
    /\ entry = <<>>
    /\ selection = None
    /\ selected_container = None
    /\ attempts = 0
    /\ stdout = <<>>
    /\ dump_file = "absent"
    /\ exit_code = None

\* sys.exit(code) after the messages msgs have been printed
Exit(msgs, code) ==
    /\ stdout' = stdout \o msgs
    /\ exit_code' = Some(code)
    /\ pc' = "exit"

(***************************************************************************)
(* get_docker_status, called by main.                                      *)
(***************************************************************************)
DockerStateOf(result) ==
    CASE result = "ok"       -> "RUNNING"
      [] result = "nonzero"  -> "NOT_RUNNING"
      [] result = "notfound" -> "NOT_INSTALLED"

GetDockerStatus ==
    /\ pc = "start"
    /\ \E result \in Outcomes :
          /\ commands' = Append(commands, Invocation(<<"docker", "info">>, result))
          /\ docker_state' = DockerStateOf(result)
    /\ stdout' = Append(stdout, Plain("Checking Docker status..."))
    /\ pc' = "probed"
    /\ UNCHANGED << listing, containers, prompt, selected_container,
                    dump_file, exit_code >>

(***************************************************************************)
(* handle_docker_status, called by main.                                   *)
(***************************************************************************)
\* the same with the NOT_RUNNING branch reporting the error without leaving
HandleDockerStatus_NoExit ==
    /\ pc = "probed"
    /\ \/ /\ docker_state = "NOT_INSTALLED"
          /\ Exit(<<display_error("Docker is not installed or not found in PATH.")>>, 1)
       \/ /\ docker_state = "NOT_RUNNING"
          /\ stdout' = Append(stdout, display_error("Docker is not running"))
          /\ pc' = "handled"
          /\ UNCHANGED exit_code
       \/ /\ docker_state \notin {"NOT_INSTALLED", "NOT_RUNNING"}
          /\ stdout' = Append(stdout, display_success("Docker is running"))
          /\ pc' = "handled"
          /\ UNCHANGED exit_code
    /\ UNCHANGED << docker_state, commands, listing, containers, prompt,
                    selected_container, dump_file >>

HandleDockerStatus ==
    /\ pc = "probed"
    /\ \/ /\ docker_state = "NOT_INSTALLED"
          /\ Exit(<<display_error("Docker is not installed or not found in PATH.")>>, 1)
       \/ /\ docker_state = "NOT_RUNNING"
          /\ Exit(<<display_error("Docker is not running")>>, 1)
       \/ /\ docker_state \notin {"NOT_INSTALLED", "NOT_RUNNING"}
          /\ stdout' = Append(stdout, display_success("Docker is running"))
          /\ pc' = "handled"
          /\ UNCHANGED exit_code
    /\ UNCHANGED << docker_state, commands, listing, containers, prompt,
                    selected_container, dump_file >>

(***************************************************************************)
(* get_docker_containers, called by main.  The state after its last        *)
(* statement still holds its local variables.                              *)
(***************************************************************************)
GetDockerContainers ==
    /\ pc = "handled"
    /\ \E result \in Outcomes :
          /\ commands' = Append(commands, Invocation(<<"docker", "ps">>, result))
          /\ \/ /\ result = "ok"
                /\ \E out \in Texts :
                      /\ output' = out
                      /\ clean_output' = remove_docker_listing_headers(out)
                      /\ container_names' =
                            get_container_names(remove_docker_listing_headers(out))
                /\ pc' = "list_return"
                /\ UNCHANGED << stdout, exit_code >>
             \/ /\ result = "nonzero"
                /\ Exit(<<display_error("Unable to list running containers.")>>, 1)
                /\ UNCHANGED listing
             \/ /\ result = "notfound"
                /\ Exit(<<display_error("Docker is not installed or not found in PATH.")>>, 1)
                /\ UNCHANGED listing
    /\ UNCHANGED << docker_state, containers, prompt, selected_container,
                    dump_file >>

(***************************************************************************)
(* main: the returned list is bound to containers and tested for           *)
(* emptiness; select_container then shows the list and waits in input().   *)
(* The local variables of get_docker_containers are gone.                  *)
(***************************************************************************)
MainCheckContainers ==
    /\ pc = "list_return"
    /\ containers' = container_names
    /\ output' = <<>>
    /\ clean_output' = <<>>
    /\ container_names' = <<>>
    /\ \/ /\ Len(container_names) = 0
          /\ Exit(<<display_error("No Docker container is running")>>, 1)
       \/ /\ Len(container_names) # 0
          /\ stdout' = stdout \o display_containers(container_names)
          /\ pc' = "input"
          /\ UNCHANGED exit_code
    /\ UNCHANGED << docker_state, commands, prompt, selected_container,
                    dump_file >>

(***************************************************************************)
(* select_container: one line is read and handled.  A valid number returns *)
(* to main, which prints the selected name.                                *)
(***************************************************************************)
\* the element of the list for a selection that passed the range test
Chosen_Previous(cs, index) == IF index = 0 THEN cs[Len(cs)] ELSE cs[index]

Chosen(cs, index) == cs[index + 1]

\* the same with the cancel branch only printing its message
Cancel_NoExit ==
    /\ attempts < MaxAttempts
    /\ stdout' = stdout
                   \o <<Plain("Selection cancelled."),
                        display_error("Invalid selection. Please try again.")>>
                   \o display_containers(containers)
    /\ UNCHANGED << pc, selected_container, exit_code >>

\* selection == -1: the program ends
Cancel ==
    /\ Exit(<<Plain("Selection cancelled.")>>, 0)
    /\ UNCHANGED selected_container

\* the same with the program ending after the error message
Retry_GiveUp(message) ==
    /\ Exit(<<display_error(message)>>, 1)
    /\ UNCHANGED selected_container

\* an entry that selects nothing: the error is reported, the loop shows the
\* list again and waits in input()
Retry(message) ==
    /\ attempts < MaxAttempts
    /\ stdout' = stdout \o <<display_error(message)>> \o display_containers(containers)
    /\ UNCHANGED << pc, selected_container, exit_code >>

SelectContainer ==
    /\ pc = "input"
    /\ \E line \in Entries :
          LET n == IntOf(line) IN
          /\ entry' = line
          /\ attempts' = attempts + 1
          /\ \/ /\ ~n.ok
                /\ Retry("Please enter a valid number.")
                /\ UNCHANGED selection
             \/ /\ n.ok
                /\ selection' = Some(n.val - 1)
                /\ \/ /\ n.val - 1 = -1
                      /\ Cancel
                   \/ /\ n.val - 1 # -1
                      /\ 0 <= n.val - 1 /\ n.val - 1 < Len(containers)
                      /\ selected_container' = Some(Chosen(containers, n.val - 1))
                      /\ stdout' = Append(stdout,
                            [display_success("You selected: ") EXCEPT
                                !.arg = Chosen(containers, n.val - 1)])
                      /\ pc' = "backup"
                      /\ UNCHANGED exit_code
                   \/ /\ n.val - 1 # -1
                      /\ ~(0 <= n.val - 1 /\ n.val - 1 < Len(containers))
                      /\ Retry("Invalid selection. Please try again.")
    /\ UNCHANGED << docker_state, commands, listing, containers, dump_file >>

(***************************************************************************)
(* take_backup, called by main; main ends after it.  The file is opened    *)
(* while the arguments of subprocess.run are evaluated, so before the      *)
(* command is started.  No statement closes it: whether it is closed when  *)
(* take_backup is left depends on when the interpreter reclaims the file   *)
(* object.  The name of the dump file and the error text of the command,  *)
(* which only appear in the messages, are left out.                        *)
(***************************************************************************)
BackupArgv(container_name) ==
    <<"docker", "exec", "-t", container_name, "pg_dumpall", "-c", "-U", "postgres">>

\* the same without check=True: a failed dump is not noticed
TakeBackup_NoCheck ==
    /\ pc = "backup"
    /\ \E result \in Outcomes :
          /\ commands' = Append(commands,
                Invocation(BackupArgv(selected_container[1]), result))
          /\ \/ /\ result \in {"ok", "nonzero"}
                /\ Exit(<<display_success("Backup taken successfully: ")>>, 0)
             \/ /\ result = "notfound"
                /\ Exit(<<display_error("Docker is not installed or not found in PATH.")>>, 1)
    /\ dump_file' \in {"open", "closed"}
    /\ UNCHANGED << docker_state, listing, containers, prompt,
                    selected_container >>

TakeBackup ==
    /\ pc = "backup"
    /\ \E result \in Outcomes :
          /\ commands' = Append(commands,
                Invocation(BackupArgv(selected_container[1]), result))
          /\ \/ /\ result = "ok"
                /\ Exit(<<display_success("Backup taken successfully: ")>>, 0)
             \/ /\ result = "nonzero"
                /\ Exit(<<display_error("Unable to take backup: ")>>, 1)
             \/ /\ result = "notfound"
                /\ Exit(<<display_error("Docker is not installed or not found in PATH.")>>, 1)
    /\ dump_file' \in {"open", "closed"}
    /\ UNCHANGED << docker_state, listing, containers, prompt,
                    selected_container >>

Next ==
    \/ GetDockerStatus
    \/ HandleDockerStatus
    \/ GetDockerContainers
    \/ MainCheckContainers
    \/ SelectContainer
    \/ TakeBackup

Spec == Init /\ [][Next]_vars

(***************************************************************************)
(* Vocabulary of the properties.                                           *)
(***************************************************************************)
Last(seq) == seq[Len(seq)]

\* the external commands of the given subcommand (info, ps, exec) started so far
Started(sub) == {i \in 1..Len(commands) : commands[i].argv[2] = sub}

\* the list of containers and the prompt have been shown
Prompted ==
    \E i \in 1..Len(stdout) : stdout[i].text = "Select a Docker container:"

ErrorShown(text) ==
    /\ stdout # <<>>
    /\ Last(stdout).kind = "error"
    /\ Last(stdout).text = text

\* the process has ended and nothing more can happen
Terminated == pc = "exit" /\ ~ENABLED Next

\* the number typed at the prompt
Entered == IntOf(entry)

\* the header tokens of a listing, as the specification lists them
HeaderTokens ==
    { <<"C","O","N","T","A","I","N","E","R"," ","I","D">>,
      <<"I","M","A","G","E">>,
      <<"C","O","M","M","A","N","D">>,
      <<"C","R","E","A","T","E","D">>,
      <<"S","T","A","T","U","S">>,
      <<"P","O","R","T","S">>,
      <<"N","A","M","E","S">> }

\* text from position i on is made of header tokens and whitespace only
RECURSIVE OnlyHeadersFrom(_, _)
OnlyHeadersFrom(text, i) ==
    \/ i > Len(text)
    \/ /\ text[i] \in Whitespace
       /\ OnlyHeadersFrom(text, i + 1)
    \/ \E h \in HeaderTokens :
          /\ MatchAt(h, text, i)
          /\ OnlyHeadersFrom(text, i + Len(h))

OnlyHeaders(text) == OnlyHeadersFrom(text, 1)

ContainsHeader(text) ==
    \E i \in 1..Len(text) : \E h \in HeaderTokens : MatchAt(h, text, i)

\* the lines of a text; a final newline ends the last line
RECURSIVE LinesOf(_)
LinesOf(text) ==
    IF text = <<>> THEN <<>>
    ELSE LET nls == {i \in 1..Len(text) : text[i] = "\n"}
         IN  IF nls = {} THEN <<text>>
             ELSE LET i == CHOOSE k \in nls : \A l \in nls : k <= l
                  IN  IF i = Len(text) THEN <<SubSeq(text, 1, i - 1)>>
                      ELSE <<SubSeq(text, 1, i - 1)>>
                              \o LinesOf(SubSeq(text, i + 1, Len(text)))

\* the lines written one per line
RECURSIVE JoinLines(_)
JoinLines(ls) ==
    IF ls = <<>> THEN <<>>
    ELSE IF Len(ls) = 1 THEN Head(ls)
    ELSE Head(ls) \o <<"\n">> \o JoinLines(Tail(ls))

\* the line is <prefix><whitespace><token>, the token without whitespace
HasLastColumn(line) ==
    /\ line # <<>>
    /\ Last(line) \notin Whitespace
    /\ \E i \in 1..Len(line) : line[i] \in Whitespace

\* the trailing run of characters that are not whitespace
LastColumn(line) ==
    LET ws == {i \in 1..Len(line) : line[i] \in Whitespace}
        i  == IF ws = {} THEN 0 ELSE CHOOSE k \in ws : \A l \in ws : l <= k
    IN  SubSeq(line, i + 1, Len(line))

LastColumns(text) == [i \in 1..Len(LinesOf(text)) |-> LastColumn(LinesOf(text)[i])]

\* the listing parser: header removal followed by name extraction
Parse(text) == get_container_names(remove_docker_listing_headers(text))

(***************************************************************************)
(* C1: the status probe is the first external command; the listing         *)
(* command, the prompt and the backup command are reached only after the   *)
(* probe ended with exit code 0; after a probe that ended otherwise the    *)
(* program prints an error and leaves with exit code 1, and neither the    *)
(* listing command nor the prompt nor the backup command is ever reached.  *)
(***************************************************************************)
C1_ProbeGatesEverything ==
    /\ commands # <<>> => commands[1].argv[2] = "info"
    /\ (Started("ps") # {} \/ Started("exec") # {} \/ Prompted)
          => /\ commands[1].result = "ok"
             /\ docker_state = "RUNNING"
    /\ (pc \notin {"start", "probed"} /\ commands[1].result # "ok")
          => /\ Terminated
             /\ exit_code = Some(1)
             /\ Len(commands) = 1
             /\ \/ /\ commands[1].result = "notfound"
                   /\ ErrorShown("Docker is not installed or not found in PATH.")
                \/ /\ commands[1].result = "nonzero"
                   /\ ErrorShown("Docker is not running")
             /\ ~Prompted
             /\ dump_file = "absent"

C1_Witness ==
    /\ pc = "exit"
    /\ docker_state = "NOT_RUNNING"
    /\ exit_code = Some(1)

\* the outcomes of a run
BackupSucceeded ==
    /\ commands # <<>>
    /\ Last(commands).argv[2] = "exec"
    /\ Last(commands).result = "ok"

Cancelled ==
    /\ attempts > 0
    /\ Entered.ok /\ Entered.val = 0
    /\ Started("exec") = {}

FatalError ==
    /\ commands # <<>>
    /\ LET c == Last(commands) IN
       \/ /\ c.result = "notfound"
          /\ ErrorShown("Docker is not installed or not found in PATH.")
       \/ /\ c.argv[2] = "info" /\ c.result = "nonzero"
          /\ ErrorShown("Docker is not running")
       \/ /\ c.argv[2] = "ps" /\ c.result = "nonzero"
          /\ ErrorShown("Unable to list running containers.")
       \/ /\ c.argv[2] = "ps" /\ c.result = "ok" /\ containers = <<>>
          /\ ~Prompted
          /\ ErrorShown("No Docker container is running")
       \/ /\ c.argv[2] = "exec" /\ c.result = "nonzero"
          /\ ErrorShown("Unable to take backup: ")

(***************************************************************************)
(* C2: the program ends with exit code 0 exactly when the backup succeeded *)
(* or the operator cancelled, and with exit code 1 exactly on a fatal      *)
(* error; a fatal error prints its error message last, the failing command *)
(* is the last one started, and nothing happens after the program ended.   *)
(***************************************************************************)
C2_ExitCodes ==
    /\ pc # "exit" => exit_code = None
    /\ pc = "exit" =>
          /\ Terminated
          /\ exit_code \in {Some(0), Some(1)}
          /\ exit_code = Some(0) <=> (BackupSucceeded \/ Cancelled)
          /\ exit_code = Some(1) <=> FatalError
    /\ (pc # "exit" /\ commands # <<>> /\ Last(commands).result # "ok")
          => pc = "probed"

C2_Witness ==
    /\ pc = "exit"
    /\ exit_code = Some(1)
    /\ Last(commands).argv[2] = "exec"
    /\ Last(commands).result = "nonzero"

(***************************************************************************)
(* C3: once the operator has entered 0 at the prompt, after any number of  *)
(* entries that selected nothing, the program has ended with exit code 0,  *)
(* no backup command was started and no dump file exists.                  *)
(***************************************************************************)
C3_CancelEndsWithoutBackup ==
    (attempts > 0 /\ Entered.ok /\ Entered.val = 0)
        => /\ Terminated
           /\ exit_code = Some(0)
           /\ selection = Some(-1)
           /\ selected_container = None
           /\ Started("exec") = {}
           /\ dump_file = "absent"

C3_Witness ==
    /\ entry = <<"0">>
    /\ attempts > 1
    /\ pc = "exit"

\* the last entry is a number of the list
ValidEntry ==
    /\ attempts > 0
    /\ Entered.ok
    /\ 1 <= Entered.val /\ Entered.val <= Len(containers)

(***************************************************************************)
(* C4: an entered number n with 1 <= n <= len(list) selects list[n-1] and  *)
(* nothing else does; the backup command is started at most once, once the *)
(* program has ended after a selection exactly once, and it names exactly  *)
(* the selected identifier.                                                *)
(***************************************************************************)
C4_SelectionIsBackedUp ==
    /\ ValidEntry <=> selected_container # None
    /\ ValidEntry =>
          /\ selected_container = Some(containers[Entered.val])
          /\ pc \in {"backup", "exit"}
          /\ pc = "exit" => Cardinality(Started("exec")) = 1
    /\ Cardinality(Started("exec")) <= 1
    /\ \A i \in Started("exec") :
          /\ ValidEntry
          /\ i = Len(commands)
          /\ commands[i].argv = BackupArgv(containers[Entered.val])

C4_Witness ==
    /\ pc = "exit"
    /\ Len(containers) = 2
    /\ containers[1] # containers[2]
    /\ entry = <<"2">>
    /\ Started("exec") # {}

\* an entry that neither selects nor cancels
InvalidLine(line, cs) ==
    \/ ~IntOf(line).ok
    \/ /\ IntOf(line).val # 0
       /\ ~(1 <= IntOf(line).val /\ IntOf(line).val <= Len(cs))

\* what a read at the prompt does
C5_Step ==
    (pc = "input" /\ attempts' # attempts) =>
        /\ InvalidLine(entry', containers) =>
              /\ pc' = "input"
              /\ exit_code' = None
              /\ containers' = containers
              /\ commands' = commands
              /\ selected_container' = None
              /\ dump_file' = "absent"
              /\ Len(stdout') = Len(stdout) + 3
              /\ stdout'[Len(stdout) + 1].kind = "error"
              /\ SubSeq(stdout', Len(stdout) + 2, Len(stdout) + 3)
                    = display_containers(containers)
        /\ pc' # "input" => ~InvalidLine(entry', containers)

(***************************************************************************)
(* C5: an entry that is no integer, or an integer other than 0 outside     *)
(* 1..len(list), prints an error and shows the list and the prompt again;  *)
(* the program stays at the prompt, does not end and starts no backup.     *)
(* The prompt is left only by a valid number or by 0.                      *)
(***************************************************************************)
C5_InvalidEntryPromptsAgain == [][C5_Step]_vars

C5_Witness ==
    /\ pc = "input"
    /\ attempts > 1
    /\ Entered.ok
    /\ Entered.val = Len(containers) + 1
    /\ Last(stdout).text = "Enter the number of the container you want to select (0 to cancel): "

(***************************************************************************)
(* C6: for a listing whose lines all have the form                         *)
(* <prefix><whitespace><token>, the parser returns the tokens, one per     *)
(* line, unchanged and in the order of the lines.                          *)
(***************************************************************************)
C6_LastColumnOfEveryLine ==
    (/\ pc = "list_return"
     /\ \A i \in 1..Len(LinesOf(output)) : HasLastColumn(LinesOf(output)[i]))
        => container_names = LastColumns(output)

\* the parser on a listing of headers only, and the step of main after it
C7_State ==
    (pc = "list_return" /\ OnlyHeaders(output)) => container_names = <<>>

C7_Step ==
    (pc = "list_return" /\ OnlyHeaders(output)) =>
        /\ pc' = "exit"
        /\ exit_code' = Some(1)
        /\ containers' = <<>>
        /\ stdout' = Append(stdout, display_error("No Docker container is running"))
        /\ commands' = commands
        /\ attempts' = 0
        /\ dump_file' = "absent"

(***************************************************************************)
(* C7: for a listing made of header tokens, whitespace and blank lines     *)
(* only, the parser returns the empty sequence, and main then reports that *)
(* no container is running and ends with exit code 1 without prompting.    *)
(***************************************************************************)
C7_HeadersOnlyIsEmptyListing == []C7_State /\ [][C7_Step]_vars

C7_Witness ==
    /\ pc = "list_return"
    /\ OnlyHeaders(output)
    /\ ContainsHeader(output)
    /\ Len(LinesOf(output)) > 1
    /\ container_names = <<>>

(***************************************************************************)
(* C8: when the identifiers the parser returns contain no header token,    *)
(* writing them one per line and parsing that text returns the same        *)
(* identifiers.                                                            *)
(***************************************************************************)
C8_ReparseIsIdentity ==
    (/\ pc = "list_return"
     /\ \A i \in 1..Len(container_names) : ~ContainsHeader(container_names[i]))
        => Parse(JoinLines(container_names)) = container_names

\* the lines that are not made of header tokens and whitespace only
RemainingLines(text) == SelectSeq(LinesOf(text), LAMBDA l : ~OnlyHeaders(l))

(***************************************************************************)
(* C9: lines made of header tokens and whitespace only contribute nothing: *)
(* the result is the result for the text without those lines, it has one   *)
(* non-empty identifier per remaining line, and no identifier contains     *)
(* whitespace or a line break.                                             *)
(***************************************************************************)
C9_BlankLinesContributeNothing ==
    pc = "list_return" =>
        /\ container_names = Parse(JoinLines(RemainingLines(output)))
        /\ Len(container_names) = Len(RemainingLines(output))
        /\ \A i \in 1..Len(container_names) :
              /\ container_names[i] # <<>>
              /\ \A j \in 1..Len(container_names[i]) :
                    container_names[i][j] \notin Whitespace

(***************************************************************************)
(* C10: the dump file is opened before the backup command is started and   *)
(* is closed on every path out of take_backup.                             *)
(***************************************************************************)
C10_DumpFileClosed ==
    /\ Started("exec") # {} => dump_file # "absent"
    /\ (pc = "exit" /\ Started("exec") # {}) => dump_file = "closed"

=============================================================================
